---- MODULE Spec2Model ----
(***************************************************************************)
(* A model of the code generator of simple-si-units                        *)
(* (code-generator/code_generator.py): the SIUnits dimension vector, the   *)
(* synthesis of conversion rules (find_unit_conversions), of inverse rules *)
(* (generate_inverse_unit_conversions) and of suggested inverse units      *)
(* (inverse_check).                                                        *)
(*                                                                         *)
(* Text is a sequence of one-character strings: "m/s" is <<"m","/","s">>.  *)
(***************************************************************************)
EXTENDS Integers, Sequences, FiniteSets, TLC

VARIABLES
    \* a run of main()
    data,           \* the DataFrame of unit-type-definitions.csv
    missing,        \* inverse_check: the names with no inverse unit
    suggested,      \* inverse_check: the suggested unit type definitions
    lut,            \* find_unit_conversions: siunit_measure_lut
    warnings,       \* find_unit_conversions: the WARNING lines printed
    conversions,    \* the rows of the DataFrame find_unit_conversions returns
    generated,      \* how many modules are written
    inverse_rules,  \* the inverse conversions written, one per scalar type
    measurement_units,  \* the DataFrame of measurement-units.csv
    inverse_measures,   \* inverse_check: the suggested unit measurement definitions
    \* a session with SIUnits objects
    expr,       \* the text handed to SIUnits.from_str
    pc,         \* where the run, or the session, is
    u,          \* the vector parsed from expr
    v,          \* the second operand
    how,        \* how v was made: "from_str" or "inverse"
    op,         \* the operator applied: "none", "mul" or "div"
    w,          \* u op v, or the vector parsed back from text
    x,          \* v op u
    text,       \* str(u)
    \* the objects of a session: list objects and the SIUnits objects that hold them
    heap,       \* the list objects made so far, each a list of tokens
    vectors,    \* the SIUnits objects made so far, each holding two list objects
    returned    \* what the last call returned

runVars ==
    <<data, missing, suggested, lut, warnings, conversions, generated, inverse_rules,
      measurement_units, inverse_measures>>

unitVars == <<expr, u, v, how, op, w, x, text>>

objectVars == <<heap, vectors, returned>>

vars == <<data, missing, suggested, lut, warnings, conversions, generated, inverse_rules,
          measurement_units, inverse_measures,
          expr, pc, u, v, how, op, w, x, text,
          heap, vectors, returned>>

-----------------------------------------------------------------------------
(* Bounds of the model *)

\* the longest of the arbitrary texts handed to from_str
MaxLen == 4
\* the most pieces (a token, or a token with a power) on one side of a
\* well-formed text handed to from_str
MaxPieces == 2
\* the most tokens on one side of a text whose vector is an operand
MaxTokens == 3
\* the longest run of digits in a text handed to from_str
MaxDigits == 1
\* the most rows of unit-type-definitions.csv
MaxRows == 3
\* the most rows of measurement-units.csv
MaxMeasures == 2
\* the most SIUnits objects a session makes
MaxObjects == 3

-----------------------------------------------------------------------------
(* Text *)

\* the characters the texts are made of, with their code points
Alphabet == {"m", "s", ".", "/", "^", "0", "1", "2", "-"}

CodePoint(c) ==
    CASE c = " " -> 32
      [] c = "-" -> 45
      [] c = "." -> 46
      [] c = "/" -> 47
      [] c = "0" -> 48
      [] c = "1" -> 49
      [] c = "2" -> 50
      [] c = "3" -> 51
      [] c = "4" -> 52
      [] c = "5" -> 53
      [] c = "6" -> 54
      [] c = "7" -> 55
      [] c = "8" -> 56
      [] c = "9" -> 57
      [] c = "^" -> 94
      [] c = "g" -> 103
      [] c = "k" -> 107
      [] c = "m" -> 109
      [] c = "s" -> 115

DigitChars == {"0", "1", "2", "3", "4", "5", "6", "7", "8", "9"}

DigitValue(c) == CodePoint(c) - 48

DigitChar(d) == CHOOSE c \in DigitChars : DigitValue(c) = d

\* Python's < on str: by code point, a proper prefix first
RECURSIVE StrLess(_, _)
StrLess(s, t) ==
    IF t = <<>> THEN FALSE
    ELSE IF s = <<>> THEN TRUE
    ELSE IF s[1] # t[1] THEN CodePoint(s[1]) < CodePoint(t[1])
    ELSE StrLess(Tail(s), Tail(t))

Contains(s, c) == \E i \in 1..Len(s) : s[i] = c

IndexOf(s, c) == CHOOSE i \in 1..Len(s) : s[i] = c /\ \A j \in 1..(i-1) : s[j] # c

\* str.split(c): every piece, the empty ones too
RECURSIVE Split(_, _)
Split(s, c) ==
    IF Contains(s, c)
    THEN <<SubSeq(s, 1, IndexOf(s, c) - 1)>> \o Split(SubSeq(s, IndexOf(s, c) + 1, Len(s)), c)
    ELSE <<s>>

\* str.replace(c, d)
Replace(s, c, d) == [i \in 1..Len(s) |-> IF s[i] = c THEN d ELSE s[i]]

\* where key first is in s (0 when it is not): key in s, s.split(key, maxsplit=1)
Find(s, key) ==
    LET at == {i \in 1..(Len(s) - Len(key) + 1) : SubSeq(s, i, i + Len(key) - 1) = key}
    IN  IF at = {} THEN 0 ELSE CHOOSE i \in at : \A j \in at : i <= j

\* s.startswith(key)
StartsWithText(s, key) == Len(s) >= Len(key) /\ SubSeq(s, 1, Len(key)) = key

\* s[1:]
Rest(s) == IF s = <<>> THEN <<>> ELSE Tail(s)

\* str(n) of a natural number
RECURSIVE IntToStr(_)
IntToStr(n) ==
    IF n < 10 THEN <<DigitChar(n)>>
    ELSE IntToStr(n \div 10) \o <<DigitChar(n % 10)>>

IsDigits(s) == Len(s) > 0 /\ \A i \in 1..Len(s) : s[i] \in DigitChars

\* the texts int() takes: digits after an optional sign
IsIntLiteral(s) ==
    \/ IsDigits(s)
    \/ Len(s) > 1 /\ s[1] = "-" /\ IsDigits(Tail(s))

RECURSIVE DigitsValue(_)
DigitsValue(s) ==
    IF s = <<>> THEN 0
    ELSE 10 * DigitsValue(SubSeq(s, 1, Len(s) - 1)) + DigitValue(s[Len(s)])

\* int(s)
ParseInt(s) == IF s[1] = "-" THEN 0 - DigitsValue(Tail(s)) ELSE DigitsValue(s)

\* a range loop that appends the token once more
RECURSIVE RepeatOnceMore(_, _)
RepeatOnceMore(t, n) == IF n < 0 THEN <<>> ELSE <<t>> \o RepeatOnceMore(t, n - 1)

\* for i in range(0, n): out_list.append(t)
RECURSIVE Repeat(_, _)
Repeat(t, n) == IF n <= 0 THEN <<>> ELSE <<t>> \o Repeat(t, n - 1)

-----------------------------------------------------------------------------
(* expand_units and condense_units *)

\* the pieces of the dot-split text with the empty ones kept
AllPieces(s) == Split(s, ".")

\* [x for x in units_str.split('.') if len(x) > 0]
NonEmptyPieces(s) == SelectSeq(Split(s, "."), LAMBDA p : Len(p) > 0)

\* one piece u of the dot-split text raises ValueError: x, n = u.split('^')
\* does not unpack, or int(n) does not parse
PieceRaises(p) ==
    Contains(p, "^") /\ (Len(Split(p, "^")) # 2 \/ ~IsIntLiteral(Split(p, "^")[2]))

\* the tokens one piece appends to out_list
PieceTokens(p) ==
    IF Contains(p, "^")
    THEN Repeat(Split(p, "^")[1], ParseInt(Split(p, "^")[2]))
    ELSE <<p>>

expand_units_raises(units_str) ==
    /\ units_str # <<"1">>
    /\ \E i \in 1..Len(NonEmptyPieces(units_str)) : PieceRaises(NonEmptyPieces(units_str)[i])

RECURSIVE ExpandPieces(_)
ExpandPieces(ps) ==
    IF ps = <<>> THEN <<>> ELSE PieceTokens(Head(ps)) \o ExpandPieces(Tail(ps))

\* 'kg.m^3' to ['kg', 'm', 'm', 'm']
expand_units(units_str) ==
    IF units_str = <<"1">> THEN <<>> ELSE ExpandPieces(NonEmptyPieces(units_str))

Count(list, t) == Cardinality({i \in 1..Len(list) : list[i] = t})

\* condense_units without the power of a repeated token
CondenseStepNoPower(unit_list, i, cond_output) ==
    IF \E j \in 1..(i-1) : unit_list[j] = unit_list[i] THEN cond_output
    ELSE (IF Len(cond_output) > 0 THEN cond_output \o <<".">> ELSE cond_output)
         \o unit_list[i]

\* cond_output after the token at place i of unit_list (unchanged when the
\* token was parsed before)
CondenseStep(unit_list, i, cond_output) ==
    IF \E j \in 1..(i-1) : unit_list[j] = unit_list[i] THEN cond_output
    ELSE (IF Len(cond_output) > 0 THEN cond_output \o <<".">> ELSE cond_output)
         \o unit_list[i]
         \o (IF Count(unit_list, unit_list[i]) > 1
             THEN <<"^">> \o IntToStr(Count(unit_list, unit_list[i]))
             ELSE <<>>)

RECURSIVE CondenseFrom(_, _, _)
CondenseFrom(unit_list, i, cond_output) ==
    IF i > Len(unit_list) THEN cond_output
    ELSE CondenseFrom(unit_list, i + 1, CondenseStep(unit_list, i, cond_output))

\* condense repeated units to power notation
condense_units(unit_list) == CondenseFrom(unit_list, 1, <<>>)

-----------------------------------------------------------------------------
(* class SIUnits: a record of its two token lists *)

RemoveAt(list, i) == SubSeq(list, 1, i - 1) \o SubSeq(list, i + 1, Len(list))

\* the first place i of the numerator whose token is in the denominator, and
\* the first place j of that token there: the pair the two loops find first
CancelI(n, d) ==
    CHOOSE i \in 1..Len(n) :
        /\ \E j \in 1..Len(d) : n[i] = d[j]
        /\ \A k \in 1..(i-1) : \A j \in 1..Len(d) : n[k] # d[j]

CancelJ(n, d) ==
    CHOOSE j \in 1..Len(d) :
        /\ n[CancelI(n, d)] = d[j]
        /\ \A k \in 1..(j-1) : n[CancelI(n, d)] # d[k]

\* _cancel_units that deletes the first common pair and stops
cancel_units_once(n, d) ==
    IF \E i \in 1..Len(n) : \E j \in 1..Len(d) : n[i] = d[j]
    THEN <<RemoveAt(n, CancelI(n, d)), RemoveAt(d, CancelJ(n, d))>>
    ELSE <<n, d>>

\* _cancel_units: delete the first common pair and start again
RECURSIVE cancel_units(_, _)
cancel_units(n, d) ==
    IF \E i \in 1..Len(n) : \E j \in 1..Len(d) : n[i] = d[j]
    THEN cancel_units(RemoveAt(n, CancelI(n, d)), RemoveAt(d, CancelJ(n, d)))
    ELSE <<n, d>>

RECURSIVE InsertSorted(_, _)
InsertSorted(list, t) ==
    IF list = <<>> THEN <<t>>
    ELSE IF StrLess(t, Head(list)) THEN <<t>> \o list
    ELSE <<Head(list)>> \o InsertSorted(Tail(list), t)

\* a sort that leaves the list as it is
sort_none(list) == list

\* list.sort() of a list of str
RECURSIVE sort(_)
sort(list) ==
    IF list = <<>> THEN <<>>
    ELSE InsertSorted(sort(SubSeq(list, 1, Len(list) - 1)), list[Len(list)])

\* _simplify: _cancel_units, then _sort
simplify(n, d) ==
    LET cancelled == cancel_units(n, d)
    IN  [numerator |-> sort(cancelled[1]), denominator |-> sort(cancelled[2])]

\* SIUnits(numerator, denominator)
SIUnits(numerator, denominator) == simplify(numerator, denominator)

members(a) == <<a.numerator, a.denominator>>

\* __eq__: both sides simplified, then their members compared
eq(a, b) ==
    members(simplify(a.numerator, a.denominator)) = members(simplify(b.numerator, b.denominator))

\* __str__
str(a) ==
    LET s == simplify(a.numerator, a.denominator)
    IN  IF Len(s.denominator) > 0
        THEN condense_units(s.numerator) \o <<"/">> \o condense_units(s.denominator)
        ELSE condense_units(s.numerator)

inverse(a) == SIUnits(a.denominator, a.numerator)

\* the two texts from_str hands to expand_units
Numer(s) == IF Contains(s, "/") THEN SubSeq(s, 1, IndexOf(s, "/") - 1) ELSE s

Denom(s) ==
    IF Contains(s, "/")
    THEN Replace(SubSeq(s, IndexOf(s, "/") + 1, Len(s)), "/", ".")
    ELSE <<>>

from_str_raises(s) == expand_units_raises(Numer(s)) \/ expand_units_raises(Denom(s))

from_str(s) == SIUnits(expand_units(Numer(s)), expand_units(Denom(s)))

\* __mul__ that concatenates and does not simplify
mul_raw(a, b) ==
    [numerator |-> a.numerator \o b.numerator, denominator |-> a.denominator \o b.denominator]

mul(a, b) == SIUnits(a.numerator \o b.numerator, a.denominator \o b.denominator)

truediv(a, b) == SIUnits(a.numerator \o b.denominator, a.denominator \o b.numerator)

-----------------------------------------------------------------------------
(* rotate_string, and the inverted names, symbols and 'si units' that
   inverse_check makes with it *)

StartsWith(s, c) == Len(s) > 0 /\ s[1] = c

\* a rotate_string that puts the two halves back in their order
rotate_string_unswapped(s, pivot_key) ==
    IF Find(s, pivot_key) > 0 /\ ~StartsWithText(s, pivot_key)
    THEN s
    ELSE pivot_key \o s

rotate_string(s, pivot_key) ==
    IF Find(s, pivot_key) > 0 /\ ~StartsWithText(s, pivot_key)
    THEN SubSeq(s, Find(s, pivot_key) + Len(pivot_key), Len(s)) \o pivot_key
         \o SubSeq(s, 1, Find(s, pivot_key) - 1)
    ELSE pivot_key \o s

\* ' per ', 'inverse ' and 'per_'
Per == <<" ", "p", "e", "r", " ">>

InversePrefix == <<"i", "n", "v", "e", "r", "s", "e", " ">>

PerPrefix == <<"p", "e", "r", "_">>

inverted_unit_name(unit_name) ==
    IF Find(unit_name, Per) > 0
    THEN rotate_string(unit_name, Per)
    ELSE InversePrefix \o unit_name

inverted_symbol(unit_symbol) ==
    IF Find(Rest(unit_symbol), <<"p">>) > 0
    THEN rotate_string(unit_symbol, <<"p">>)
    ELSE PerPrefix \o unit_symbol

inverse_unit_label(si_units) ==
    IF StartsWith(rotate_string(si_units, <<"/">>), "/")
    THEN <<"1">> \o rotate_string(si_units, <<"/">>)
    ELSE rotate_string(si_units, <<"/">>)

-----------------------------------------------------------------------------
(* Sessions with SIUnits objects.  In SpecParse a text is parsed, the vector
   rendered and the rendering parsed back.  In SpecUnits a text is parsed, a
   second operand is made (parsed from another text, or the inverse of the
   first), and the two are multiplied or divided in both orders. *)

Texts(n) == UNION {[1..k -> Alphabet] : k \in 0..n}

\* no run of digits of s is longer than n
DigitRunsWithin(s, n) ==
    \A i \in 1..Len(s) :
        (i + n <= Len(s)) => \E j \in i..(i + n) : s[j] \notin DigitChars

\* the arbitrary texts SpecParse parses: every text over the alphabet
InputTexts == {s \in Texts(MaxLen) : DigitRunsWithin(s, MaxDigits)}

Tokens == {<<"m">>, <<"s">>}

TokenLists == UNION {[1..k -> Tokens] : k \in 0..MaxTokens}

RECURSIVE DotJoin(_)
DotJoin(list) ==
    IF list = <<>> THEN <<>>
    ELSE IF Len(list) = 1 THEN list[1]
    ELSE list[1] \o <<".">> \o DotJoin(Tail(list))

\* one side of an expression: its tokens joined by dots, "1" for none
Side(list) == IF list = <<>> THEN <<"1">> ELSE DotJoin(list)

\* a token, or a token with a power
PieceTexts == Tokens \cup {t \o <<"^", "2">> : t \in Tokens}

PieceLists == UNION {[1..k -> PieceTexts] : k \in 0..MaxPieces}

\* the well-formed texts SpecParse parses as well: NUMER, NUMER/DENOM and
\* NUMER/DENOM/DENOM
WellFormedTexts ==
    {Side(n) : n \in PieceLists}
        \cup {Side(n) \o <<"/">> \o Side(d) : n \in PieceLists, d \in PieceLists}
        \cup {Side(n) \o <<"/">> \o d \o <<"/">> \o e :
                 n \in PieceLists, d \in PieceTexts, e \in PieceTexts}

\* the texts SpecUnits parses: NUMER and NUMER/DENOM
UnitTexts ==
    {Side(n) : n \in TokenLists}
        \cup {Side(n) \o <<"/">> \o Side(d) : n \in TokenLists, d \in TokenLists}

\* the vectors the texts of a second operand parse to
OperandUnits == {from_str(s) : s \in UnitTexts}

NoUnits == [numerator |-> <<>>, denominator |-> <<>>]

NoRun ==
    /\ data = <<>>
    /\ missing = <<>>
    /\ suggested = <<>>
    /\ lut = <<>>
    /\ warnings = <<>>
    /\ conversions = <<>>
    /\ generated = 0
    /\ inverse_rules = <<>>
    /\ measurement_units = <<>>
    /\ inverse_measures = <<>>

\* no object has been made
NoObjects ==
    /\ heap = <<>>
    /\ vectors = <<>>
    /\ returned = [call |-> "none"]

InitSession ==
    /\ NoRun
    /\ NoObjects
    /\ pc = "start"
    /\ u = NoUnits
    /\ v = NoUnits
    /\ how = "none"
    /\ op = "none"
    /\ w = NoUnits
    /\ x = NoUnits
    /\ text = <<>>

InitParse == expr \in (InputTexts \cup WellFormedTexts) /\ InitSession

InitUnits == expr \in UnitTexts /\ InitSession

\* u = SIUnits.from_str(expr)
FromStr ==
    /\ pc = "start"
    /\ IF from_str_raises(expr)
       THEN pc' = "ValueError" /\ u' = u
       ELSE pc' = "parsed" /\ u' = from_str(expr)
    /\ UNCHANGED <<expr, v, how, op, w, x, text>>
    /\ UNCHANGED runVars
    /\ UNCHANGED objectVars

\* v = SIUnits.from_str(another text)
Operand ==
    /\ pc = "parsed"
    /\ \E b \in OperandUnits : v' = b
    /\ how' = "from_str"
    /\ pc' = "ready"
    /\ UNCHANGED <<expr, u, op, w, x, text>>
    /\ UNCHANGED runVars
    /\ UNCHANGED objectVars

\* v = u.inverse()
Inverse ==
    /\ pc = "parsed"
    /\ v' = inverse(u)
    /\ how' = "inverse"
    /\ pc' = "ready"
    /\ UNCHANGED <<expr, u, op, w, x, text>>
    /\ UNCHANGED runVars
    /\ UNCHANGED objectVars

\* w = u * v
Mul ==
    /\ pc = "ready"
    /\ w' = mul(u, v)
    /\ op' = "mul"
    /\ pc' = "applied"
    /\ UNCHANGED <<expr, u, v, how, x, text>>
    /\ UNCHANGED runVars
    /\ UNCHANGED objectVars

\* x = v * u
MulSwapped ==
    /\ pc = "applied" /\ op = "mul"
    /\ x' = mul(v, u)
    /\ pc' = "both"
    /\ UNCHANGED <<expr, u, v, how, op, w, text>>
    /\ UNCHANGED runVars
    /\ UNCHANGED objectVars

\* w = u / v
Div ==
    /\ pc = "ready"
    /\ w' = truediv(u, v)
    /\ op' = "div"
    /\ pc' = "applied"
    /\ UNCHANGED <<expr, u, v, how, x, text>>
    /\ UNCHANGED runVars
    /\ UNCHANGED objectVars

\* x = v / u
DivSwapped ==
    /\ pc = "applied" /\ op = "div"
    /\ x' = truediv(v, u)
    /\ pc' = "both"
    /\ UNCHANGED <<expr, u, v, how, op, w, text>>
    /\ UNCHANGED runVars
    /\ UNCHANGED objectVars

\* text = str(u)
Str ==
    /\ pc = "parsed"
    /\ text' = str(u)
    /\ pc' = "rendered"
    /\ UNCHANGED <<expr, u, v, how, op, w, x>>
    /\ UNCHANGED runVars
    /\ UNCHANGED objectVars

\* w = SIUnits.from_str(text)
FromStrAgain ==
    /\ pc = "rendered"
    /\ IF from_str_raises(text)
       THEN pc' = "ValueError again" /\ w' = w
       ELSE pc' = "parsed again" /\ w' = from_str(text)
    /\ UNCHANGED <<expr, u, v, how, op, x, text>>
    /\ UNCHANGED runVars
    /\ UNCHANGED objectVars

\* text = the 'si units' inverse_check suggests for the inverse of expr
Suggest ==
    /\ pc = "parsed"
    /\ text' = inverse_unit_label(expr)
    /\ pc' = "suggested"
    /\ UNCHANGED <<expr, u, v, how, op, w, x>>
    /\ UNCHANGED runVars
    /\ UNCHANGED objectVars

\* w = SIUnits.from_str(text), of the suggested text
FromStrSuggested ==
    /\ pc = "suggested"
    /\ IF from_str_raises(text)
       THEN pc' = "ValueError in suggestion" /\ w' = w
       ELSE pc' = "parsed suggestion" /\ w' = from_str(text)
    /\ UNCHANGED <<expr, u, v, how, op, x, text>>
    /\ UNCHANGED runVars
    /\ UNCHANGED objectVars

NextParse ==
    \/ FromStr
    \/ Str
    \/ FromStrAgain
    \/ Suggest
    \/ FromStrSuggested

NextUnits ==
    \/ FromStr
    \/ Operand
    \/ Inverse
    \/ Mul
    \/ MulSwapped
    \/ Div
    \/ DivSwapped

SpecParse == InitParse /\ [][NextParse]_vars

SpecUnits == InitUnits /\ [][NextUnits]_vars

-----------------------------------------------------------------------------
(* The ambiguity policy *)

input_blacklist == {"radioactivity", "absorbed dose", "dose equivalent"}

combo_whitelist ==
    { <<"mass", "absorbed dose", "energy">>,
      <<"absorbed dose", "mass", "energy">>,
      <<"energy", "absorbed dose", "mass">>,
      <<"absorbed dose", "energy", "mass">>,
      <<"mass", "dose equivalent", "energy">>,
      <<"dose equivalent", "mass", "energy">>,
      <<"energy", "dose equivalent", "mass">>,
      <<"dose equivalent", "energy", "mass">>,
      <<"moment of inertia", "angular acceleration", "torque">>,
      <<"angular acceleration", "moment of inertia", "torque">>,
      <<"angular acceleration", "torque", "moment of inertia">>,
      <<"torque", "angular acceleration", "moment of inertia">>,
      <<"torque", "moment of inertia", "angular acceleration">> }

\* an output blacklist that leaves torque out
output_blacklist_without_torque ==
    {"moment of inertia", "radioactivity", "absorbed dose", "dose equivalent"}

output_blacklist ==
    {"torque", "moment of inertia", "radioactivity", "absorbed dose", "dose equivalent"}

-----------------------------------------------------------------------------
(* The catalog: unit-type-definitions.csv *)

\* the names of the rows, in the order of Python's < on str; " " is a name
\* that str.strip() leaves empty
NamesInOrder ==
    << " ", "absorbed dose", "angular acceleration", "energy",
       "moment of inertia", "torque" >>

\* the categories, in the order of Python's < on str
CategoriesInOrder == << "base", "mechanical", "nuclear" >>

Names == {NamesInOrder[i] : i \in 1..Len(NamesInOrder)}

NameRank(n) == CHOOSE i \in 1..Len(NamesInOrder) : NamesInOrder[i] = n

CategoryRank(c) == CHOOSE i \in 1..Len(CategoriesInOrder) : CategoriesInOrder[i] = c

\* the category the catalog gives each name
CategoryOf(n) ==
    CASE n = " " -> "base"
      [] n = "absorbed dose" -> "nuclear"
      [] OTHER -> "mechanical"

\* the 'si units' of the rows: s, 1/s, s^2
SIUnitTexts == { <<"s">>, <<"1", "/", "s">>, <<"s", "^", "2">> }

\* the 'unit symbol' and the 'unit name' the catalog gives each name
SymbolOf(n) ==
    CASE n = "angular acceleration" -> <<"r", "p", "s">>
      [] n = "energy" -> <<"J">>
      [] n = "moment of inertia" -> <<"k", "g", "m">>
      [] n = "torque" -> <<"N", "m">>
      [] n = "absorbed dose" -> <<"G", "y">>
      [] OTHER -> <<"x">>

UnitNameOf(n) ==
    CASE n = "angular acceleration" -> <<"r", " ", "p", "e", "r", " ", "s">>
      [] n = "energy" -> <<"j">>
      [] OTHER -> SymbolOf(n)

Rows ==
    {[category |-> CategoryOf(n), name |-> n, si_units |-> t,
      unit_name |-> UnitNameOf(n), unit_symbol |-> SymbolOf(n)] : n \in Names, t \in SIUnitTexts}

\* the catalogs: 1 to MaxRows rows in any order, no name twice
Catalogs ==
    {c \in UNION {[1..k -> Rows] : k \in 1..MaxRows} :
        \A i \in 1..Len(c) : \A j \in 1..Len(c) : i # j => c[i].name # c[j].name}

\* len(str(name).strip()) > 0
HasName(row) == row.name # " "

RECURSIVE Flatten(_)
Flatten(lists) == IF lists = <<>> THEN <<>> ELSE Head(lists) \o Flatten(Tail(lists))

-----------------------------------------------------------------------------
(* main: data.sort_values(by=['category', 'name']) *)

RowLess(r, t) ==
    \/ CategoryRank(r.category) < CategoryRank(t.category)
    \/ r.category = t.category /\ NameRank(r.name) < NameRank(t.name)

RECURSIVE InsertRow(_, _)
InsertRow(rows, r) ==
    IF rows = <<>> THEN <<r>>
    ELSE IF RowLess(r, Head(rows)) THEN <<r>> \o rows
    ELSE <<Head(rows)>> \o InsertRow(Tail(rows), r)

\* a sort_values that leaves the rows in the order read
sort_values_none(rows) == rows

RECURSIVE sort_values(_)
sort_values(rows) ==
    IF rows = <<>> THEN <<>>
    ELSE InsertRow(sort_values(SubSeq(rows, 1, Len(rows) - 1)), rows[Len(rows)])

\* modules = list(data['category'].unique()); modules.sort()
modules(rows) ==
    SelectSeq(CategoriesInOrder, LAMBDA c : \E i \in 1..Len(rows) : rows[i].category = c)

-----------------------------------------------------------------------------
(* find_unit_conversions *)

HasKey(table, units) == \E k \in 1..Len(table) : eq(table[k].units, units)

KeyIndex(table, units) == CHOOSE k \in 1..Len(table) : eq(table[k].units, units)

\* an append that puts the name at the head of the list
Prepend_(table, units, name) ==
    IF HasKey(table, units)
    THEN [table EXCEPT ![KeyIndex(table, units)].names = <<name>> \o @]
    ELSE table \o <<[units |-> units, names |-> <<name>>]>>

\* table[units].append(name) on a defaultdict of lists, keys in insertion order
Append_(table, units, name) ==
    IF HasKey(table, units)
    THEN [table EXCEPT ![KeyIndex(table, units)].names = @ \o <<name>>]
    ELSE table \o <<[units |-> units, names |-> <<name>>]>>

\* siunit_measure_lut after the first i rows
RECURSIVE measure_lut(_, _)
measure_lut(rows, i) ==
    IF i = 0 THEN <<>>
    ELSE IF HasName(rows[i])
         THEN Append_(measure_lut(rows, i - 1), from_str(rows[i].si_units), rows[i].name)
         ELSE measure_lut(rows, i - 1)

\* the keys of the WARNING lines: for kv in siunit_measure_lut.items(), those
\* with len(kv[1]) > 1
dimensionally_equivalent(table) == SelectSeq(table, LAMBDA kv : Len(kv.names) > 1)

\* the test that skips a combination
disallowed(this_name, other_name, output_name) ==
    /\ <<this_name, other_name, output_name>> \notin combo_whitelist
    /\ \/ this_name \in input_blacklist
       \/ other_name \in input_blacklist
       \/ output_name \in output_blacklist

Conversion(this_name, operator, verbing, other_name, output_name) ==
    [left |-> this_name, operator |-> operator, verbing |-> verbing,
     right |-> other_name, result |-> output_name]

\* the two inner loops: the rows appended for one operator and one other_unit
Combinations(this_name, operator, verbing, other_names, output_names) ==
    Flatten([j \in 1..Len(other_names) |->
        Flatten([k \in 1..Len(output_names) |->
            IF disallowed(this_name, other_names[j], output_names[k])
            THEN <<>>
            ELSE <<Conversion(this_name, operator, verbing, other_names[j], output_names[k])>>])])

\* the body of "for other_unit in siunit_measure_lut"
ForOtherUnit(table, this_name, this_unit, c) ==
    LET mul_unit == mul(this_unit, table[c].units)
        div_unit == truediv(this_unit, table[c].units)
    IN  (IF HasKey(table, mul_unit)
         THEN Combinations(this_name, "*", "multiplying", table[c].names,
                           table[KeyIndex(table, mul_unit)].names)
         ELSE <<>>)
        \o
        (IF HasKey(table, div_unit)
         THEN Combinations(this_name, "/", "dividing", table[c].names,
                           table[KeyIndex(table, div_unit)].names)
         ELSE <<>>)

\* unit_conversions: the outer loop over the rows
find_unit_conversions(rows) ==
    LET table == measure_lut(rows, Len(rows))
    IN  Flatten([i \in 1..Len(rows) |->
            Flatten([c \in 1..Len(table) |->
                ForOtherUnit(table, rows[i].name, from_str(rows[i].si_units), c)])])

-----------------------------------------------------------------------------
(* generate_inverse_unit_conversions *)

concrete_types ==
    << "f64", "f32", "i64", "i32", "num_bigfloat::BigFloat",
       "num_complex::Complex32", "num_complex::Complex64" >>

\* the test of the scan
IsInverseOf(data_row, row) ==
    /\ row.name \notin output_blacklist
    /\ eq(inverse(from_str(data_row.si_units)), from_str(row.si_units))

\* the scan that keeps the last row found
LastFound(data_row, rows) ==
    CHOOSE i \in 1..Len(rows) :
        /\ IsInverseOf(data_row, rows[i])
        /\ \A j \in (i+1)..Len(rows) : ~IsInverseOf(data_row, rows[j])

\* the row at which the scan breaks
FirstFound(data_row, rows) ==
    CHOOSE i \in 1..Len(rows) :
        /\ IsInverseOf(data_row, rows[i])
        /\ \A j \in 1..(i-1) : ~IsInverseOf(data_row, rows[j])

\* out_buf: one inverse conversion per scalar type
generate_inverse_unit_conversions(data_row, rows) ==
    IF \E i \in 1..Len(rows) : IsInverseOf(data_row, rows[i])
    THEN [n \in 1..Len(concrete_types) |->
            [right |-> data_row.name,
             result |-> rows[FirstFound(data_row, rows)].name,
             scalar_type |-> concrete_types[n]]]
    ELSE <<>>

\* generate_unit_structs: the inversions of the rows of one module
generate_unit_structs(mod_units, all_units) ==
    Flatten([i \in 1..Len(mod_units) |->
        generate_inverse_unit_conversions(mod_units[i], all_units)])

-----------------------------------------------------------------------------
(* inverse_check *)

\* unit_reverse_lut: every row, by its units
RECURSIVE reverse_lut(_, _)
reverse_lut(rows, i) ==
    IF i = 0 THEN <<>>
    ELSE Append_(reverse_lut(rows, i - 1), from_str(rows[i].si_units), rows[i].name)

missing_inverses(rows) ==
    LET table == reverse_lut(rows, Len(rows))
        names == [i \in 1..Len(rows) |-> rows[i].name]
    IN  SelectSeq(names, LAMBDA n :
            \A i \in 1..Len(rows) :
                rows[i].name = n => ~HasKey(table, inverse(from_str(rows[i].si_units))))

\* row = data[data['name'] == no_inverse].iloc[0]
RowNamed(rows, n) ==
    rows[CHOOSE i \in 1..Len(rows) :
            rows[i].name = n /\ \A j \in 1..(i-1) : rows[j].name # n]

\* inverse_defs_buffer: the name is 'inverse ' + name, kept as its two parts
inverse_defs(rows) ==
    [k \in 1..Len(missing_inverses(rows)) |->
        LET row == RowNamed(rows, missing_inverses(rows)[k])
        IN  [category |-> row.category,
             name |-> <<"inverse ", row.name>>,
             unit_name |-> inverted_unit_name(row.unit_name),
             unit_symbol |-> inverted_symbol(row.unit_symbol),
             si_units |-> inverse_unit_label(row.si_units)]]

\* the test of the offset without isfinite
nonzero(offset) == offset # "0"

\* numpy.isfinite(float(offset)) and float(offset) != 0
finite_nonzero(offset) == offset \notin {"nan", "inf", "0"}

\* the symbol of an inverted row of measurement-units.csv
inverted_measure_symbol(unit_symbol) ==
    IF Find(Rest(unit_symbol), <<"p">>) > 0
    THEN rotate_string(unit_symbol, <<" ", "p", " ">>)
    ELSE PerPrefix \o unit_symbol

\* the inverted rows of the rows of measurement-units.csv with the name of row
measures_of(row, table) ==
    Flatten([m \in 1..Len(table) |->
        IF table[m].name # row.name \/ finite_nonzero(table[m].offset)
        THEN <<>>
        ELSE <<[name |-> <<"inverse ", row.name>>,
                unit_name |-> inverted_unit_name(table[m].unit_name),
                unit_symbol |-> inverted_measure_symbol(table[m].unit_symbol),
                slope |-> table[m].inverse_slope,
                offset |-> "",
                inverse_slope |-> table[m].slope]>>])

\* inverse_meas_buffer
inverse_meas(rows, table) ==
    Flatten([k \in 1..Len(missing_inverses(rows)) |->
        measures_of(RowNamed(rows, missing_inverses(rows)[k]), table)])

-----------------------------------------------------------------------------
(* A run of main *)

Init ==
    /\ data \in Catalogs
    /\ missing = <<>>
    /\ suggested = <<>>
    /\ lut = <<>>
    /\ warnings = <<>>
    /\ conversions = <<>>
    /\ generated = 0
    /\ inverse_rules = <<>>
    /\ measurement_units = <<>>
    /\ inverse_measures = <<>>
    /\ pc = "read"
    /\ expr = <<>>
    /\ u = NoUnits
    /\ v = NoUnits
    /\ how = "none"
    /\ op = "none"
    /\ w = NoUnits
    /\ x = NoUnits
    /\ text = <<>>
    /\ NoObjects

\* data.sort_values(by=['category', 'name'], inplace=True)
SortValues ==
    /\ pc = "read"
    /\ data' = sort_values(data)
    /\ pc' = "sorted"
    /\ UNCHANGED <<missing, suggested, lut, warnings, conversions, generated, inverse_rules,
                   measurement_units, inverse_measures>>
    /\ UNCHANGED unitVars
    /\ UNCHANGED objectVars

\* inverse_check(data, from_to_unit_conversions)
InverseCheck ==
    /\ pc = "sorted"
    /\ missing' = missing_inverses(data)
    /\ suggested' = inverse_defs(data)
    /\ pc' = "checked"
    /\ inverse_measures' = inverse_meas(data, measurement_units)
    /\ UNCHANGED <<data, lut, warnings, conversions, generated, inverse_rules, measurement_units>>
    /\ UNCHANGED unitVars
    /\ UNCHANGED objectVars

\* conversions = find_unit_conversions(data, test_recs)
FindUnitConversions ==
    /\ pc = "checked"
    /\ lut' = measure_lut(data, Len(data))
    /\ warnings' = dimensionally_equivalent(measure_lut(data, Len(data)))
    /\ conversions' = find_unit_conversions(data)
    /\ pc' = "converted"
    /\ UNCHANGED <<data, missing, suggested, generated, inverse_rules,
                   measurement_units, inverse_measures>>
    /\ UNCHANGED unitVars
    /\ UNCHANGED objectVars

\* one turn of "for module_name in modules": generate_modules writes the
\* unit structs of the module, each with its inverse conversions
GenerateModule ==
    /\ pc = "converted"
    /\ generated < Len(modules(data))
    /\ LET module_name == modules(data)[generated + 1]
           mod_units == SelectSeq(data, LAMBDA r : r.category = module_name)
       IN  inverse_rules' = inverse_rules \o generate_unit_structs(mod_units, data)
    /\ generated' = generated + 1
    /\ pc' = IF generated + 1 = Len(modules(data)) THEN "done" ELSE pc
    /\ UNCHANGED <<data, missing, suggested, lut, warnings, conversions,
                   measurement_units, inverse_measures>>
    /\ UNCHANGED unitVars
    /\ UNCHANGED objectVars

Next ==
    \/ SortValues
    \/ InverseCheck
    \/ FindUnitConversions
    \/ GenerateModule

Spec == Init /\ [][Next]_vars

-----------------------------------------------------------------------------
(* A run of main as far as inverse_check, with rows in measurement-units.csv *)

MeasuredNames == {"angular acceleration", "energy"}

MeasuredRows ==
    {r \in Rows : r.name \in MeasuredNames /\ r.si_units \in {<<"s">>, <<"1", "/", "s">>}}

MeasuredCatalogs ==
    {c \in UNION {[1..k -> MeasuredRows] : k \in 1..Cardinality(MeasuredNames)} :
        \A i \in 1..Len(c) : \A j \in 1..Len(c) : i # j => c[i].name # c[j].name}

\* units of measure: name, symbol, slope and inverse slope
MeasureUnits ==
    { [unit_name |-> <<"k", " ", "p", "e", "r", " ", "h">>, unit_symbol |-> <<"k", "p", "h">>,
       slope |-> "1000", inverse_slope |-> "0.001"],
      [unit_name |-> <<"f", "o", "o", "t">>, unit_symbol |-> <<"f", "t">>,
       slope |-> "2", inverse_slope |-> "0.5"] }

\* the 'offset' column as read_csv gives it: a float, NaN for an empty cell
Offsets == {"0", "273.15", "nan", "inf"}

MeasureRows ==
    {[name |-> n, unit_name |-> m.unit_name, unit_symbol |-> m.unit_symbol,
      slope |-> m.slope, offset |-> o, inverse_slope |-> m.inverse_slope] :
        n \in MeasuredNames, m \in MeasureUnits, o \in Offsets}

MeasureTables == UNION {[1..k -> MeasureRows] : k \in 0..MaxMeasures}

InitMeasures ==
    /\ data \in MeasuredCatalogs
    /\ measurement_units \in MeasureTables
    /\ missing = <<>>
    /\ suggested = <<>>
    /\ lut = <<>>
    /\ warnings = <<>>
    /\ conversions = <<>>
    /\ generated = 0
    /\ inverse_rules = <<>>
    /\ inverse_measures = <<>>
    /\ pc = "read"
    /\ expr = <<>>
    /\ u = NoUnits
    /\ v = NoUnits
    /\ how = "none"
    /\ op = "none"
    /\ w = NoUnits
    /\ x = NoUnits
    /\ text = <<>>
    /\ NoObjects

NextMeasures ==
    \/ SortValues
    \/ InverseCheck

SpecMeasures == InitMeasures /\ [][NextMeasures]_vars

-----------------------------------------------------------------------------
(* A session with SIUnits objects as Python holds them.  A list is an object
   of its own: heap[p] is the list object p, and an SIUnits object holds the
   places of its numerator and its denominator, so two objects that hold one
   list see each other's changes.  SpecObjects makes objects with from_str,
   inverse, * and /, and calls ==, str and hash on them. *)

\* the texts a session parses: tokens out of order, a quotient, tokens that cancel
ObjectTexts ==
    { <<"s", ".", "m">>, <<"m", "/", "s">>, <<"m", ".", "s", "/", "s">> }

\* __members of the object a, read from the list objects h
members_at(h, a) == <<h[a.numerator], h[a.denominator]>>

\* self._simplify(): _cancel_units deletes from the two list objects and _sort
\* sorts them, both in place.  (No object holds one list on both sides, see
\* SidesApart, so the two places differ.)
simplify_in_place(h, a) ==
    LET s == simplify(h[a.numerator], h[a.denominator])
    IN  [h EXCEPT ![a.numerator] = s.numerator, ![a.denominator] = s.denominator]

\* the object SIUnits(numerator, denominator) of two list objects
Object(numerator, denominator) == [numerator |-> numerator, denominator |-> denominator]

\* __mul__ that extends self.numerator in place
mul_lists_extended(h, a, b) ==
    LET g == [h EXCEPT ![a.numerator] = @ \o h[b.numerator]]
    IN  g \o << g[a.numerator], g[a.denominator] \o g[b.denominator] >>

\* the list objects after self.numerator + other.numerator and
\* self.denominator + other.denominator made two new lists: the old unchanged
mul_lists(h, a, b) ==
    h \o << h[a.numerator] \o h[b.numerator], h[a.denominator] \o h[b.denominator] >>

\* self.numerator + other.denominator and self.denominator + other.numerator
truediv_lists(h, a, b) ==
    h \o << h[a.numerator] \o h[b.denominator], h[a.denominator] \o h[b.numerator] >>

\* the object on the two newest list objects of h
Newest(h) == Object(Len(h) - 1, Len(h))

\* no object holds one list object as its numerator and its denominator
SidesApart == \A k \in 1..Len(vectors) : vectors[k].numerator # vectors[k].denominator

InitObjects == expr = <<>> /\ InitSession

\* SIUnits.from_str(s): two new lists n_list and d_list, and an object on them
NewFromStr ==
    /\ Len(vectors) < MaxObjects
    /\ \E s \in ObjectTexts :
        /\ ~from_str_raises(s)
        /\ LET h == heap \o << expand_units(Numer(s)), expand_units(Denom(s)) >>
           IN  /\ heap' = simplify_in_place(h, Newest(h))
               /\ vectors' = Append(vectors, Newest(h))
    /\ returned' = [call |-> "from_str"]
    /\ UNCHANGED <<pc, unitVars, runVars>>

\* a.inverse(): a new object on the two list objects of a, swapped
NewInverse ==
    /\ Len(vectors) < MaxObjects
    /\ \E k \in 1..Len(vectors) :
        LET a == Object(vectors[k].denominator, vectors[k].numerator)
        IN  /\ heap' = simplify_in_place(heap, a)
            /\ vectors' = Append(vectors, a)
    /\ returned' = [call |-> "inverse"]
    /\ UNCHANGED <<pc, unitVars, runVars>>

\* a * b
NewMul ==
    /\ Len(vectors) < MaxObjects
    /\ \E j, k \in 1..Len(vectors) :
        LET h == mul_lists(heap, vectors[j], vectors[k])
        IN  /\ heap' = simplify_in_place(h, Newest(h))
            /\ vectors' = Append(vectors, Newest(h))
    /\ returned' = [call |-> "mul"]
    /\ UNCHANGED <<pc, unitVars, runVars>>

\* a / b
NewTruediv ==
    /\ Len(vectors) < MaxObjects
    /\ \E j, k \in 1..Len(vectors) :
        LET h == truediv_lists(heap, vectors[j], vectors[k])
        IN  /\ heap' = simplify_in_place(h, Newest(h))
            /\ vectors' = Append(vectors, Newest(h))
    /\ returned' = [call |-> "truediv"]
    /\ UNCHANGED <<pc, unitVars, runVars>>

\* a == b: self._simplify(), other._simplify(), then the members compared
CallEq ==
    /\ \E j, k \in 1..Len(vectors) :
        LET h == simplify_in_place(simplify_in_place(heap, vectors[j]), vectors[k])
        IN  /\ heap' = h
            /\ returned' = [call |-> "eq",
                            value |-> members_at(h, vectors[j]) = members_at(h, vectors[k])]
    /\ UNCHANGED <<vectors, pc, unitVars, runVars>>

\* str(a): self._simplify(), then the two sides condensed
CallStr ==
    /\ \E k \in 1..Len(vectors) :
        LET h == simplify_in_place(heap, vectors[k])
            n == h[vectors[k].numerator]
            d == h[vectors[k].denominator]
        IN  /\ heap' = h
            /\ returned' = [call |-> "str",
                            value |-> IF Len(d) > 0
                                      THEN condense_units(n) \o <<"/">> \o condense_units(d)
                                      ELSE condense_units(n)]
    /\ UNCHANGED <<vectors, pc, unitVars, runVars>>

\* hash(a): the hash of the members, nothing written
CallHash ==
    /\ \E k \in 1..Len(vectors) :
        returned' = [call |-> "hash", value |-> members_at(heap, vectors[k])]
    /\ UNCHANGED <<heap, vectors, pc, unitVars, runVars>>

NextObjects ==
    \/ NewFromStr
    \/ NewInverse
    \/ NewMul
    \/ NewTruediv
    \/ CallEq
    \/ CallStr
    \/ CallHash

SpecObjects == InitObjects /\ [][NextObjects]_vars

-----------------------------------------------------------------------------
(* Properties of the synthesized rules *)

Dim(row) == from_str(row.si_units)

Places(rows) == 1..Len(rows)

\* the conversion rules that say data[i] operator data[j] = data[k]
RulesOf(i, operator, j, k) ==
    {q \in 1..Len(conversions) :
        /\ conversions[q].left = data[i].name
        /\ conversions[q].operator = operator
        /\ conversions[q].right = data[j].name
        /\ conversions[q].result = data[k].name}

\* dim(A) op dim(B) equals dim(R)
DimensionsAgree(i, operator, j, k) ==
    IF operator = "*"
    THEN eq(mul(Dim(data[i]), Dim(data[j])), Dim(data[k]))
    ELSE eq(truediv(Dim(data[i]), Dim(data[j])), Dim(data[k]))

\* not in the whitelist, and an operand in the input blacklist or the result
\* in the output blacklist
TripleDisallowed(i, j, k) ==
    /\ <<data[i].name, data[j].name, data[k].name>> \notin combo_whitelist
    /\ \/ data[i].name \in input_blacklist
       \/ data[j].name \in input_blacklist
       \/ data[k].name \in output_blacklist

\* a rule is emitted, once and with its verbing label, exactly for the
\* triples whose dimensions agree and that are not disallowed
EmittedIffAdmitted ==
    /\ \A i \in Places(data), j \in Places(data), k \in Places(data) :
         \A operator \in {"*", "/"} :
            IF DimensionsAgree(i, operator, j, k) /\ ~TripleDisallowed(i, j, k)
            THEN Cardinality(RulesOf(i, operator, j, k)) = 1
            ELSE RulesOf(i, operator, j, k) = {}
    /\ \A q \in 1..Len(conversions) :
         /\ \E i \in Places(data), j \in Places(data), k \in Places(data) :
               q \in RulesOf(i, conversions[q].operator, j, k)
         /\ conversions[q].operator = "*" => conversions[q].verbing = "multiplying"
         /\ conversions[q].operator = "/" => conversions[q].verbing = "dividing"
         /\ conversions[q].operator \in {"*", "/"}

Converted == pc \in {"converted", "done"}

AllNamed == \A i \in Places(data) : HasName(data[i])

\* C1: for every catalog (its names differ), find_unit_conversions emits the
\* rule (A, op, B, R) if and only if dim(A) op dim(B) = dim(R) and the triple
\* is not disallowed, once, with the verbing label of op.
C1_EmittedIffAdmitted == Converted => EmittedIffAdmitted

\* the same for the catalogs in which no name is blank
C1_WhenAllNamed == (Converted /\ AllNamed) => EmittedIffAdmitted

\* rules of both operators, and a triple whose dimensions agree that the
\* input blacklist bars
C1_WhenAllNamed_Witness ==
    /\ Converted /\ AllNamed
    /\ \E q \in 1..Len(conversions) : conversions[q].operator = "*"
    /\ \E q \in 1..Len(conversions) : conversions[q].operator = "/"
    /\ \E i \in Places(data), j \in Places(data), k \in Places(data) :
         /\ DimensionsAgree(i, "*", j, k)
         /\ data[i].name \in input_blacklist
         /\ data[k].name \notin output_blacklist

\* C2: no rule has torque as its result.
C2_NoTorqueResult == \A q \in 1..Len(conversions) : conversions[q].result # "torque"

\* C2, amended: a rule has torque as its result only when its operands are
\* moment of inertia and angular acceleration, the two whitelisted triples.
C2_TorqueOnlyWhitelisted ==
    \A q \in 1..Len(conversions) :
        conversions[q].result = "torque" =>
            <<conversions[q].left, conversions[q].right>> \in
                { <<"moment of inertia", "angular acceleration">>,
                  <<"angular acceleration", "moment of inertia">> }

\* a rule with torque as its result
C2_Witness ==
    /\ Converted
    /\ \E q \in 1..Len(conversions) : conversions[q].result = "torque"

\* C3: with A * B = R the rule B * A = R is emitted too.
C3_SwapClosed ==
    Converted =>
        \A q \in 1..Len(conversions) :
            conversions[q].operator = "*" =>
                \E r \in 1..Len(conversions) :
                    /\ conversions[r].operator = "*"
                    /\ conversions[r].left = conversions[q].right
                    /\ conversions[r].right = conversions[q].left
                    /\ conversions[r].result = conversions[q].result

\* the same for the rules whose left operand has a name
C3_WhenLeftNamed ==
    Converted =>
        \A q \in 1..Len(conversions) :
            (conversions[q].operator = "*" /\ conversions[q].left # " ") =>
                \E r \in 1..Len(conversions) :
                    /\ conversions[r].operator = "*"
                    /\ conversions[r].left = conversions[q].right
                    /\ conversions[r].right = conversions[q].left
                    /\ conversions[r].result = conversions[q].result

\* the rows that may be the inverse of data[i]: the dimension is the inverse
\* and the name is not in the output blacklist
InverseCandidates(i) ==
    {k \in Places(data) :
        /\ data[k].name \notin output_blacklist
        /\ eq(inverse(Dim(data[i])), Dim(data[k]))}

First(S) == CHOOSE k \in S : \A m \in S : k <= m

InverseRulesOf(i) == {q \in 1..Len(inverse_rules) : inverse_rules[q].right = data[i].name}

SevenTypes ==
    {"f64", "f32", "i64", "i32", "num_bigfloat::BigFloat",
     "num_complex::Complex32", "num_complex::Complex64"}

\* C4: a quantity with a candidate inverse has seven inverse rules, one per
\* scalar type, all naming the first candidate in catalog order; a quantity
\* with none has no inverse rule; no inverse rule names an output-blacklisted
\* quantity.
C4_FirstMatch ==
    pc = "done" =>
        /\ \A i \in Places(data) :
             IF InverseCandidates(i) # {}
             THEN /\ Cardinality(InverseRulesOf(i)) = 7
                  /\ \A t \in SevenTypes :
                       Cardinality({q \in InverseRulesOf(i) :
                                      inverse_rules[q].scalar_type = t}) = 1
                  /\ \A q \in InverseRulesOf(i) :
                       inverse_rules[q].result = data[First(InverseCandidates(i))].name
             ELSE InverseRulesOf(i) = {}
        /\ \A q \in 1..Len(inverse_rules) :
             /\ inverse_rules[q].result \notin output_blacklist
             /\ \E i \in Places(data) : inverse_rules[q].right = data[i].name

\* a quantity with two candidates
C4_Witness ==
    /\ pc = "done"
    /\ \E i \in Places(data) :
         /\ Cardinality(InverseCandidates(i)) >= 2
         /\ InverseRulesOf(i) # {}

\* a quantity whose only row of the inverse dimension is one that the output
\* blacklist bars
C4_WitnessBarred ==
    /\ pc = "done"
    /\ \E i \in Places(data) :
         /\ InverseCandidates(i) = {}
         /\ \E k \in Places(data) :
              /\ data[k].name \in output_blacklist
              /\ eq(inverse(Dim(data[i])), Dim(data[k]))

Suggested(i) ==
    \E q \in 1..Len(suggested) : suggested[q].name = <<"inverse ", data[i].name>>

\* C5: a quantity has a suggested inverse exactly when the scan finds no
\* candidate, so when it has no inverse rule.
C5_RuleOrSuggestion ==
    pc = "done" =>
        \A i \in Places(data) : Suggested(i) <=> (InverseCandidates(i) = {})

\* what inverse_check does: a suggestion exactly when no row at all has the
\* inverse dimension
C5_SuggestedIffNoRow ==
    pc \in {"checked", "converted", "done"} =>
        \A i \in Places(data) :
            Suggested(i) <=>
                ~\E k \in Places(data) : eq(inverse(Dim(data[i])), Dim(data[k]))

\* the orders the rows can be read in
Orders ==
    UNION {{g \in [1..n -> 1..n] : \A a \in 1..n, b \in 1..n : a # b => g[a] # g[b]} :
              n \in 0..MaxRows}

Reorderings(rows) ==
    {[i \in 1..Len(rows) |-> rows[f[i]]] : f \in {g \in Orders : DOMAIN g = 1..Len(rows)}}

\* the inverse conversions of a run over the sorted rows
InverseRulesFrom(rows) ==
    Flatten([m \in 1..Len(modules(rows)) |->
        generate_unit_structs(SelectSeq(rows, LAMBDA r : r.category = modules(rows)[m]), rows)])

\* C6: read in any other order, the rows sort to the same DataFrame, by
\* category and then name, and the conversion rules and the inverse rules are
\* those of that DataFrame, in its order.
C6_OrderDetermined ==
    LET frame == IF pc = "read" THEN sort_values(data) ELSE data
    IN  /\ \A p \in Reorderings(data) : sort_values(p) = frame
        /\ \A i \in 1..(Len(frame) - 1) : RowLess(frame[i], frame[i + 1])
        /\ Converted => conversions = find_unit_conversions(frame)
        /\ pc = "done" => inverse_rules = InverseRulesFrom(frame)

\* three rows that the category orders against their names, with rules
C6_Witness ==
    /\ pc = "done"
    /\ Len(data) >= 3
    /\ \E i \in 1..(Len(data) - 1) : NameRank(data[i].name) > NameRank(data[i + 1].name)
    /\ Len(conversions) >= 2

\* rows read in an order that is not the sorted one
C6_WitnessUnsorted ==
    /\ pc = "read"
    /\ Len(data) >= 3
    /\ \E i \in 1..(Len(data) - 1) : RowLess(data[i + 1], data[i])

-----------------------------------------------------------------------------
(* Properties of the dimension vectors *)

Sorted(list) == \A i \in 1..(Len(list) - 1) : ~StrLess(list[i + 1], list[i])

Canonical(a) ==
    /\ \A i \in 1..Len(a.numerator) : \A j \in 1..Len(a.denominator) :
           a.numerator[i] # a.denominator[j]
    /\ Sorted(a.numerator)
    /\ Sorted(a.denominator)

\* C7: every vector made by from_str, *, / or inverse() has no token on both
\* sides and has each side sorted, and _simplify leaves it as it is.
C7_Canonical ==
    \A a \in {u, v, w, x} :
        Canonical(a) /\ simplify(a.numerator, a.denominator) = a

\* a quotient in which tokens were cancelled and two different tokens remain
C7_Witness ==
    /\ pc = "both" /\ op = "div" /\ how = "from_str"
    /\ Len(w.numerator) >= 2 /\ w.numerator[1] # w.numerator[2]
    /\ Len(w.numerator) + Len(w.denominator)
         < Len(u.numerator) + Len(u.denominator) + Len(v.numerator) + Len(v.denominator)

\* C8: a vector times its inverse, in either order, is the empty vector.
C8_InverseLaw ==
    (how = "inverse" /\ op = "mul") =>
        /\ pc \in {"applied", "both"} => w = NoUnits
        /\ pc = "both" => x = NoUnits

\* a vector with a repeated token and a denominator, times its inverse
C8_Witness ==
    /\ how = "inverse" /\ op = "mul" /\ pc = "both"
    /\ Len(u.numerator) >= 2 /\ u.numerator[1] = u.numerator[2]
    /\ Len(u.denominator) >= 1
    /\ v.numerator = u.denominator /\ v.denominator = u.numerator

\* C9: u * v equals v * u; u / v equals v / u only when u equals v.
C9_Commutes ==
    pc = "both" =>
        /\ op = "mul" => eq(w, x)
        /\ (op = "div" /\ eq(w, x)) => eq(u, v)

\* a product of two different vectors, tokens of both on each side
C9_Witness ==
    /\ pc = "both" /\ op = "mul" /\ how = "from_str"
    /\ ~eq(u, v)
    /\ Len(u.numerator) >= 1 /\ Len(v.numerator) >= 1
    /\ u.numerator[1] # v.numerator[1]
    /\ Len(w.numerator) >= 2

\* the quotients in both orders agree, of two equal vectors that are not empty
C9_WitnessDiv == pc = "both" /\ op = "div" /\ eq(w, x) /\ u # NoUnits

LetterChars == {"g", "k", "m", "s"}

\* a unit token: letters
ValidToken(t) == Len(t) > 0 /\ \A i \in 1..Len(t) : t[i] \in LetterChars

\* a token, or a token with a power n >= 1
ValidPiece(p) ==
    \/ ValidToken(p)
    \/ /\ Len(Split(p, "^")) = 2
       /\ ValidToken(Split(p, "^")[1])
       /\ IsDigits(Split(p, "^")[2])
       /\ DigitsValue(Split(p, "^")[2]) >= 1

\* a dot-joined list of tokens
ValidList(s) == \A i \in 1..Len(Split(s, ".")) : ValidPiece(Split(s, ".")[i])

\* a valid dimension expression: NUMER or NUMER/DENOM, each "1" or a
\* dot-joined list of tokens; further "/" in DENOM join more lists
ValidExpr(s) ==
    LET parts == Split(s, "/")
    IN  /\ parts[1] = <<"1">> \/ ValidList(parts[1])
        /\ Len(parts) = 2 => (parts[2] = <<"1">> \/ ValidList(parts[2]))
        /\ Len(parts) > 2 => \A i \in 2..Len(parts) : ValidList(parts[i])

\* C10: for a valid dimension expression, the rendering of the parsed vector
\* parses, and to a vector equal to the parsed one.
C10_RoundTrip ==
    (ValidExpr(expr) /\ pc \in {"parsed again", "ValueError again"}) =>
        pc = "parsed again" /\ eq(w, u)

\* a reciprocal with a power: no numerator, a repeated token below
C10_Witness ==
    /\ ValidExpr(expr) /\ pc = "parsed again"
    /\ u.numerator = <<>> /\ Len(u.denominator) >= 2
    /\ Contains(text, "^")

\* the dimensionless "1" went round
C10_WitnessOne == expr = <<"1">> /\ pc = "parsed again"

\* an expression whose tokens cancel went round
C10_WitnessCancel ==
    /\ ValidExpr(expr) /\ pc = "parsed again"
    /\ Len(u.numerator) + Len(u.denominator)
         < Len(expand_units(Numer(expr))) + Len(expand_units(Denom(expr)))

-----------------------------------------------------------------------------
(* Properties of parsing: powers and empty tokens *)

\* the two sides of a text, as from_str splits it
Sides(s) == IF Contains(s, "/") THEN {Numer(s), Denom(s)} ELSE {Numer(s)}

\* a piece tok^n with an integer n <= 0
NonPositivePower(p) ==
    /\ Len(Split(p, "^")) = 2
    /\ ValidToken(Split(p, "^")[1])
    /\ IsIntLiteral(Split(p, "^")[2])
    /\ ParseInt(Split(p, "^")[2]) <= 0

HasNonPositivePower(s) ==
    \E side \in Sides(s) :
        \E i \in 1..Len(Split(side, ".")) : NonPositivePower(Split(side, ".")[i])

\* C11: a text with a token raised to a zero or negative integer power does
\* not parse: from_str raises and no vector is made.
C11_NonPositivePowerFails == HasNonPositivePower(expr) => pc \in {"start", "ValueError"}

\* a side with a dot and an empty piece: adjacent dots, a leading or a
\* trailing dot
HasEmptyToken(s) ==
    \E side \in Sides(s) :
        /\ Contains(side, ".")
        /\ \E i \in 1..Len(Split(side, ".")) : Split(side, ".")[i] = <<>>

Named(side) == SelectSeq(Split(side, "."), LAMBDA p : p # <<>>)

PieceToken(p) == IF Contains(p, "^") THEN Split(p, "^")[1] ELSE p

PiecePower(p) == IF Contains(p, "^") THEN DigitsValue(Split(p, "^")[2]) ELSE 1

\* the power of token t in a list of pieces
RECURSIVE Exponent(_, _)
Exponent(t, ps) ==
    IF ps = <<>> THEN 0
    ELSE (IF PieceToken(Head(ps)) = t THEN PiecePower(Head(ps)) ELSE 0) + Exponent(t, Tail(ps))

\* every piece that is not empty is a token or a token with a power n >= 1
NamedPiecesValid(s) ==
    \A side \in Sides(s) : \A i \in 1..Len(Named(side)) : ValidPiece(Named(side)[i])

TokensOf(s) ==
    {PieceToken(Named(side)[i]) : <<side, i>> \in
        {<<sd, k>> \in Sides(s) \X (1..Len(s)) : k <= Len(Named(sd))}}

\* vector a is what the pieces of s that are not empty denote: each token to
\* the power the numerator gives it less the power the denominator gives it
DenotesNamedPieces(a, s) ==
    /\ Canonical(a)
    /\ \A i \in 1..Len(a.numerator) : a.numerator[i] \in TokensOf(s)
    /\ \A i \in 1..Len(a.denominator) : a.denominator[i] \in TokensOf(s)
    /\ \A t \in TokensOf(s) :
         Count(a.numerator, t) - Count(a.denominator, t)
            = Exponent(t, Named(Numer(s))) - Exponent(t, Named(Denom(s)))

-----------------------------------------------------------------------------
(* Properties of the catalog index (siunit_measure_lut) *)

\* where name n stands in the index: the <<key, place>> pairs
IndexPlaces(n) ==
    {kn \in (1..Len(lut)) \X (1..Len(data)) :
        kn[2] <= Len(lut[kn[1]].names) /\ lut[kn[1]].names[kn[2]] = n}

\* the row of data that has name n
RowPlace(n) == CHOOSE i \in Places(data) : data[i].name = n

-----------------------------------------------------------------------------
(* Properties of the suggested inverse units *)

FirstSlash(e) == CHOOSE i \in 1..Len(e) : e[i] = "/" /\ \A j \in 1..(i - 1) : e[j] # "/"

\* the text after the first "/", then "/", then the text before it; "1/" and
\* the text when it has no "/"
RotatedExpression(e) ==
    IF \E i \in 1..Len(e) : e[i] = "/"
    THEN SubSeq(e, FirstSlash(e) + 1, Len(e)) \o <<"/">> \o SubSeq(e, 1, FirstSlash(e) - 1)
    ELSE <<"1", "/">> \o e

\* C14: the suggestion for a quantity with no inverse has the name 'inverse '
\* + name and, as 'si units', the rotation of the quantity's 'si units' around
\* the first "/", or "1/" before it when it has no "/".
C14_SuggestedExpression ==
    pc \in {"checked", "converted", "done"} =>
        /\ Len(suggested) = Len(missing)
        /\ \A q \in 1..Len(suggested) :
             /\ q <= Len(missing)
             /\ suggested[q].name = <<"inverse ", missing[q]>>
             /\ suggested[q].si_units = RotatedExpression(data[RowPlace(missing[q])].si_units)

\* suggestions made from a text with a "/" and from a text without
C14_Witness ==
    /\ pc = "checked"
    /\ \E q \in 1..Len(suggested) : suggested[q].si_units = <<"s", "/", "1">>
    /\ \E q \in 1..Len(suggested) : suggested[q].si_units = <<"1", "/", "s", "^", "2">>

-----------------------------------------------------------------------------
(* Properties of the suggested unit measurement definitions *)

\* the rows of measurement-units.csv of a quantity that got a suggestion
Attached == {m \in 1..Len(measurement_units) :
                \E q \in 1..Len(missing) : missing[q] = measurement_units[m].name}

\* the offset is exactly zero or not finite
Invertible(m) == measurement_units[m].offset \in {"0", "nan", "inf"}

\* row r of the suggestions is the inverted row of row m
InvertedOf(r, m) ==
    /\ inverse_measures[r].name = <<"inverse ", measurement_units[m].name>>
    /\ inverse_measures[r].slope = measurement_units[m].inverse_slope
    /\ inverse_measures[r].inverse_slope = measurement_units[m].slope
    /\ inverse_measures[r].offset = ""

RotatedSymbol(t) ==
    IF \E i \in 2..Len(t) : t[i] = "p"
    THEN LET at == CHOOSE i \in 1..Len(t) : t[i] = "p" /\ \A j \in 1..(i - 1) : t[j] # "p"
         IN  SubSeq(t, at + 1, Len(t)) \o <<"p">> \o SubSeq(t, 1, at - 1)
    ELSE <<"p", "e", "r", "_">> \o t

\* C16: the symbol of an inverted row of measurement-units.csv is made from
\* the row's symbol by the rule that makes the symbol of a suggested quantity.
C16_SameSymbolRule ==
    pc = "checked" =>
        /\ \A q \in 1..Len(suggested) :
             suggested[q].unit_symbol = RotatedSymbol(data[RowPlace(missing[q])].unit_symbol)
        /\ \A r \in 1..Len(inverse_measures) :
             \E m \in Attached :
                /\ Invertible(m) /\ InvertedOf(r, m)
                /\ inverse_measures[r].unit_symbol = RotatedSymbol(measurement_units[m].unit_symbol)

\* what holds of the symbols of the suggested quantities alone
C16_QuantitySymbolRule ==
    pc = "checked" =>
        \A q \in 1..Len(suggested) :
            suggested[q].unit_symbol = RotatedSymbol(data[RowPlace(missing[q])].unit_symbol)

-----------------------------------------------------------------------------
(* Properties of expand_units and condense_units together *)

\* the text 't^n' of a token t and an integer n >= 1 in decimal digits
PowerText(e) ==
    /\ Len(Split(e, "^")) = 2
    /\ ValidToken(Split(e, "^")[1])
    /\ IsDigits(Split(e, "^")[2])
    /\ Split(e, "^")[2][1] # "0"

\* For the text 't^n' from_str makes the numerator expand_units('t^n') (one
\* token n times, which cancelling and sorting leave as it is) and no
\* denominator, and str gives condense_units of that numerator.

\* C17: condense_units(expand_units('t^n')) is the text 't^n', for every
\* token t and power n >= 1.
C17_CondenseExpand == (pc = "rendered" /\ PowerText(expr)) => text = expr

\* C17, amended: condense_units(expand_units('t^n')) is 't^n' for n >= 2 and
\* the bare token 't' for n = 1.
C17_CondenseExpandAboveOne ==
    (pc = "rendered" /\ PowerText(expr)) =>
        /\ u.numerator = expand_units(expr) /\ u.denominator = <<>>
        /\ text = condense_units(expand_units(expr))
        /\ text = IF DigitsValue(Split(expr, "^")[2]) >= 2 THEN expr ELSE Split(expr, "^")[1]

\* a token to the power 2 went through both
C17_Witness ==
    /\ pc = "rendered" /\ PowerText(expr)
    /\ DigitsValue(Split(expr, "^")[2]) = 2
    /\ Len(u.numerator) = 2
    /\ text = expr

-----------------------------------------------------------------------------
(* Properties of the suggested 'si units' as a dimension *)

\* C18: for a valid dimension expression, the text suggested for its inverse
\* parses, and to the inverse of the vector the expression parses to.
C18_SuggestionIsInverse ==
    (ValidExpr(expr) /\ pc \in {"parsed suggestion", "ValueError in suggestion"}) =>
        pc = "parsed suggestion" /\ eq(w, inverse(u))

\* the same for the expressions with at most one "/"
C18_WhenOneSlash ==
    (/\ ValidExpr(expr)
     /\ Len(Split(expr, "/")) <= 2
     /\ pc \in {"parsed suggestion", "ValueError in suggestion"}) =>
        pc = "parsed suggestion" /\ eq(w, inverse(u))

-----------------------------------------------------------------------------
(* Vectors as values *)

\* C19: dimension vectors behave as values: no multiply, divide, invert,
\* parse, equality test, render or hash call changes an object made before
\* it, operands and the object invert was called on included: the object
\* holds the same two lists and their tokens are the same, so that its
\* members, which its equality and its hash are computed from, stay as they were.
C19_ValueObjects ==
    [][\A k \in 1..Len(vectors) :
          /\ vectors'[k] = vectors[k]
          /\ members_at(heap', vectors[k]) = members_at(heap, vectors[k])]_vars

\* an object and its inverse hold the same two lists, neither list empty, a
\* third object on lists of its own is the product of the first with itself,
\* and == was just called and found two objects different
C19_Witness ==
    /\ returned = [call |-> "eq", value |-> FALSE]
    /\ \E j, k, l \in 1..Len(vectors) :
        /\ j # k
        /\ vectors[k].numerator = vectors[j].denominator
        /\ vectors[k].denominator = vectors[j].numerator
        /\ heap[vectors[j].numerator] # <<>>
        /\ heap[vectors[j].denominator] # <<>>
        /\ {vectors[l].numerator, vectors[l].denominator}
               \cap {vectors[j].numerator, vectors[j].denominator} = {}
        /\ heap[vectors[l].numerator] = heap[vectors[j].numerator] \o heap[vectors[j].numerator]
        /\ heap[vectors[l].denominator] = heap[vectors[j].denominator] \o heap[vectors[j].denominator]

====
